---- MODULE Spec2Model ----
(***************************************************************************)
(* Revenue analytics of the e-commerce admin backend                       *)
(* (app/services/revenue.py) over the sales table written by               *)
(* app/services/sales.py.                                                  *)
(*                                                                         *)
(* A date is its proleptic Gregorian ordinal (date.toordinal()), so date   *)
(* comparison is <= and "+ timedelta(days=n)" is "+ n".  Money is a Python  *)
(* float (Column(Float)): here a whole number of currency units in binary  *)
(* floating point with MantissaBits significant bits, sums rounded to      *)
(* nearest, ties to even; a quotient is kept as the exact fraction         *)
(* [num, den].  period_label, a string rendered from the bucket key alone, *)
(* is not part of the records modelled here.                               *)
(***************************************************************************)
EXTENDS Integers, Sequences, FiniteSets, TLC

VARIABLES
    store,      \* the committed rows of table "sales" with their items, in id order
    pc,         \* where the request coroutine stands
    op,         \* the service method the request runs: "none", "get", "compare"
    args,       \* the arguments the router passed to the service method
    call,       \* which get_revenue_by_period call is running (compare makes two)
    frames,     \* the locals of each get_revenue_by_period call
    response,   \* the value the service method returned
    error,      \* the exception the request raised, "" if none
    suspended,  \* the same seven of a second request, the one the event loop is not running
    catalog     \* the committed rows of tables "products", "inventory" and
                \* "inventory_history", and the clock

vars == <<store, pc, op, args, call, frames, response, error, suspended, catalog>>

-----------------------------------------------------------------------------
(* Bounds *)

MaxSales == 2

\* the significant bits of a float: 53 in CPython's binary64, fewer here so
\* that the first sum that has to be rounded is a small number
MantissaBits == 8

\* the number of sales of the ledger whose amounts need rounding
MaxLedgerSales == 3

\* the number of commits to the product catalogue
MaxCommits == 3

-----------------------------------------------------------------------------
(* Optional values and tagged scalars *)

None == [tag |-> "none", v |-> 0]
SomeDate(d) == [tag |-> "date", v |-> d]
SomeInt(i) == [tag |-> "int", v |-> i]

-----------------------------------------------------------------------------
(* datetime.date, calendar *)

IsLeap(y) == (y % 4 = 0) /\ ((y % 100 # 0) \/ (y % 400 = 0))

DaysInMonth(y, m) ==
    IF m = 2 THEN (IF IsLeap(y) THEN 29 ELSE 28)
    ELSE IF m \in {4, 6, 9, 11} THEN 30 ELSE 31

DaysBeforeYear(y) ==
    LET p == y - 1 IN p * 365 + (p \div 4) - (p \div 100) + (p \div 400)

RECURSIVE DaysBeforeMonth(_, _)
DaysBeforeMonth(y, m) ==
    IF m = 1 THEN 0 ELSE DaysBeforeMonth(y, m - 1) + DaysInMonth(y, m - 1)

\* date(y, m, d) accepts exactly the calendar dates; anything else is ValueError
ValidYMD(y, m, d) == y >= 1 /\ m \in 1..12 /\ d >= 1 /\ d <= DaysInMonth(y, m)

MkDate(y, m, d) == DaysBeforeYear(y) + DaysBeforeMonth(y, m) + d

Year(n) ==
    CHOOSE y \in (n \div 366)..((n \div 365) + 1) :
        DaysBeforeYear(y) < n /\ n <= DaysBeforeYear(y + 1)

Month(n) ==
    LET y == Year(n)
        doy == n - DaysBeforeYear(y)
    IN  CHOOSE m \in 1..12 :
            DaysBeforeMonth(y, m) < doy /\ doy <= DaysBeforeMonth(y, m) + DaysInMonth(y, m)

Day(n) == n - DaysBeforeYear(Year(n)) - DaysBeforeMonth(Year(n), Month(n))

\* date.weekday(): Monday = 0
Weekday(n) == (n + 6) % 7

-----------------------------------------------------------------------------
(* datetime.datetime: a date and a time of day (second, microsecond) *)

TimeMin == [sec |-> 0, us |-> 0]
TimeMax == [sec |-> 86399, us |-> 999999]

Combine(d, t) == [date |-> d, time |-> t]

TimeLE(s, t) == s.sec < t.sec \/ (s.sec = t.sec /\ s.us <= t.us)

DateTimeLE(a, b) == a.date < b.date \/ (a.date = b.date /\ TimeLE(a.time, b.time))

-----------------------------------------------------------------------------
(* float arithmetic *)

RECURSIVE Pow2(_)
Pow2(n) == IF n = 0 THEN 1 ELSE 2 * Pow2(n - 1)

\* the exponent of the unit in the last place of x >= 0
RECURSIVE UlpExponent(_, _)
UlpExponent(x, e) ==
    IF x < Pow2(MantissaBits + e) THEN e ELSE UlpExponent(x, e + 1)

\* x >= 0 rounded to MantissaBits significant bits, a tie to the even mantissa
RoundMagnitude(x) ==
    LET ulp == Pow2(UlpExponent(x, 0))
        low == (x \div ulp) * ulp
        rest == x - low
    IN  IF 2 * rest < ulp THEN low
        ELSE IF 2 * rest > ulp THEN low + ulp
        ELSE IF (low \div ulp) % 2 = 0 THEN low ELSE low + ulp

FloatRound(x) == IF x >= 0 THEN RoundMagnitude(x) ELSE 0 - RoundMagnitude(0 - x)

\* a + b of two floats
FloatAdd(a, b) == FloatRound(a + b)

\* a - b of two floats
FloatSub(a, b) == FloatRound(a - b)

-----------------------------------------------------------------------------
(* float division *)

Zero == [ok |-> TRUE, num |-> 0, den |-> 1]

\* a / b; ok is FALSE where Python raises ZeroDivisionError
Div(a, b) == [ok |-> b # 0, num |-> a, den |-> b]

-----------------------------------------------------------------------------
(* Rows and request inputs *)

Periods == {"daily", "weekly", "monthly", "annual"}

\* products.category_id of the three products on sale: 1 and 2 are in
\* category 1, product 3 is in category 2
CategoryOf(product_id) == IF product_id = 3 THEN 2 ELSE 1

CategoryIds == {1, 2}

\* the dates a request names:
\* Sun 2023-12-31, Wed 2024-01-03, Wed 2024-02-28, Thu 2024-02-29
RequestDates ==
    {MkDate(2023, 12, 31), MkDate(2024, 1, 3), MkDate(2024, 2, 28), MkDate(2024, 2, 29)}

\* the day date.today() returns while the request runs
TodayDates == {MkDate(2024, 2, 29)}

\* the values datetime.utcnow() takes when a sale is created
SaleMoments ==
    {Combine(MkDate(2024, 1, 3), TimeMin), Combine(MkDate(2024, 2, 29), TimeMax)}

Item(p, q) == [product_id |-> p, quantity |-> q, unit_price |-> 2 * p + 1]

\* SaleCreate.items: two lines of one category; two lines of two categories
ItemLists ==
    { <<Item(1, 1), Item(2, 2)>>,
      <<Item(2, 1), Item(3, 1)>> }

\* sum(item.quantity * item.unit_price for item in sale_data.items)
RECURSIVE SumSubtotals(_)
SumSubtotals(items) ==
    IF items = <<>> THEN 0
    ELSE LET last == items[Len(items)]
         IN  FloatAdd(SumSubtotals(SubSeq(items, 1, Len(items) - 1)),
                      FloatRound(last.quantity * last.unit_price))

RECURSIVE SumQuantity(_)
SumQuantity(items) ==
    IF items = <<>> THEN 0 ELSE Head(items).quantity + SumQuantity(Tail(items))

\* the Sale row (with its SaleItem rows) that create_sale commits
NewSale(id, sale_data, now) ==
    [id |-> id,
     total_amount |-> SumSubtotals(sale_data),
     sale_date |-> now,
     items |-> sale_data]

-----------------------------------------------------------------------------
(* get_revenue_by_period: default dates *)

\* date.replace(month=m)
ReplaceMonth(d, m) ==
    IF ValidYMD(Year(d), m, Day(d))
    THEN [ok |-> TRUE, date |-> MkDate(Year(d), m, Day(d))]
    ELSE [ok |-> FALSE, date |-> 0]

\* date.replace(year=y)
ReplaceYear(d, y) ==
    IF ValidYMD(y, Month(d), Day(d))
    THEN [ok |-> TRUE, date |-> MkDate(y, Month(d), Day(d))]
    ELSE [ok |-> FALSE, date |-> 0]

\* mutation of DefaultMonth: eleven months back, with no borrow from the year
DefaultMonthElevenBack(end_date) == Month(end_date) - 11

DefaultMonth(end_date) == IF Month(end_date) < 13 THEN 1 ELSE 13 - 12

AnnualDefaultStart(end_date) == ReplaceYear(end_date, Year(end_date) - 5)

\* the start date when the caller gave none; ok is FALSE where replace() raises
DefaultStart(period, end_date) ==
    IF period = "daily" THEN [ok |-> TRUE, date |-> end_date - 30]
    ELSE IF period = "weekly" THEN [ok |-> TRUE, date |-> end_date - 12 * 7]
    ELSE IF period = "monthly" THEN ReplaceMonth(end_date, DefaultMonth(end_date))
    ELSE AnnualDefaultStart(end_date)

ResolveEnd(end_date, today) == IF end_date.tag = "none" THEN today ELSE end_date.v

ResolveStart(period, start_date, end) ==
    IF start_date.tag = "none" THEN DefaultStart(period, end)
    ELSE [ok |-> TRUE, date |-> start_date.v]

-----------------------------------------------------------------------------
(* get_revenue_by_period: the sales query *)

\* mutation of InRange: end_date is combined with midnight, so the sales of
\* end_date after 00:00:00 fall out
InRangeUntilMidnight(sale, start_date, end_date) ==
    /\ DateTimeLE(Combine(start_date, TimeMin), sale.sale_date)
    /\ DateTimeLE(sale.sale_date, Combine(end_date, TimeMin))

InRange(sale, start_date, end_date) ==
    /\ DateTimeLE(Combine(start_date, TimeMin), sale.sale_date)
    /\ DateTimeLE(sale.sale_date, Combine(end_date, TimeMax))

\* the rows of sales JOIN sale_items JOIN products JOIN categories for one
\* sale: one row per line item whose product is in the category
RECURSIVE JoinRows(_, _, _)
JoinRows(sale, items, category_id) ==
    IF items = <<>> THEN <<>>
    ELSE (IF CategoryOf(Head(items).product_id) = category_id THEN <<sale>> ELSE <<>>)
         \o JoinRows(sale, Tail(items), category_id)

\* the rows one sale adds to the result of select(Sale)[.join(...).where(...)]
SaleRows(sale, category_id) ==
    IF category_id.tag = "none" THEN <<sale>>
    ELSE JoinRows(sale, sale.items, category_id.v)

\* result.scalars().all(): every row of the statement, none removed
RECURSIVE QuerySales(_, _, _, _)
QuerySales(rows, start_date, end_date, category_id) ==
    IF rows = <<>> THEN <<>>
    ELSE (IF InRange(Head(rows), start_date, end_date)
          THEN SaleRows(Head(rows), category_id) ELSE <<>>)
         \o QuerySales(Tail(rows), start_date, end_date, category_id)

-----------------------------------------------------------------------------
(* The bucket maps (daily_data, weekly_data, monthly_data, yearly_data): a
   dict in insertion order is the sequence of its entries, key first *)

NewBucket(key, start_date, end_date) ==
    [key |-> key,
     start_date |-> start_date,
     end_date |-> end_date,
     total_revenue |-> 0,
     total_sales |-> 0,
     order_count |-> 0]

Keys(data) == {data[i].key : i \in DOMAIN data}

\* data[key] = bucket: a new key goes to the end, an old key keeps its place
DictSet(data, bucket) ==
    IF bucket.key \in Keys(data)
    THEN [i \in DOMAIN data |-> IF data[i].key = bucket.key THEN bucket ELSE data[i]]
    ELSE Append(data, bucket)

\* mutation of DailyBuckets: the loop stops before end_date (< for <=)
DailyBucketsExclusive(start_date, end_date) ==
    IF start_date < end_date
    THEN [n \in 1..(end_date - start_date) |->
             NewBucket(start_date + n - 1, start_date + n - 1, start_date + n - 1)]
    ELSE <<>>

\* while current_date <= end_date: daily_data[current_date] = ...; current_date += 1 day
\* (the loop's n-th pass inserts start_date + n - 1, a key not yet there)
DailyBuckets(start_date, end_date) ==
    IF start_date <= end_date
    THEN [n \in 1..(end_date - start_date + 1) |->
             NewBucket(start_date + n - 1, start_date + n - 1, start_date + n - 1)]
    ELSE <<>>

\* mutation of FirstDay: the week is taken to start on Sunday
FirstDaySunday(start_date) == start_date - ((Weekday(start_date) + 1) % 7)

FirstDay(start_date) == start_date - Weekday(start_date)

\* mutant: a week ends on the day the next one starts (+ 7 for + 6)
RECURSIVE WeeklyBucketsSevenDayEnd(_, _, _)
WeeklyBucketsSevenDayEnd(data, current_week_start, end_date) ==
    IF current_week_start <= end_date
    THEN WeeklyBucketsSevenDayEnd(
             DictSet(data, NewBucket(current_week_start, current_week_start,
                                     current_week_start + 7)),
             current_week_start + 7, end_date)
    ELSE data

RECURSIVE WeeklyBuckets(_, _, _)
WeeklyBuckets(data, current_week_start, end_date) ==
    IF current_week_start <= end_date
    THEN WeeklyBuckets(
             DictSet(data, NewBucket(current_week_start, current_week_start,
                                     current_week_start + 6)),
             current_week_start + 7, end_date)
    ELSE data

\* mutant: the month of end_date is left out (< for <=)
MonthLoopCondStrict(current_year, current_month, end_date) ==
    \/ current_year < Year(end_date)
    \/ (current_year = Year(end_date) /\ current_month < Month(end_date))

MonthLoopCond(current_year, current_month, end_date) ==
    \/ current_year < Year(end_date)
    \/ (current_year = Year(end_date) /\ current_month <= Month(end_date))

\* mutation of MonthlyBuckets: February always ends on the 28th
RECURSIVE MonthlyBucketsShortFebruary(_, _, _, _)
MonthlyBucketsShortFebruary(data, current_year, current_month, end_date) ==
    IF MonthLoopCond(current_year, current_month, end_date)
    THEN LET month_start == MkDate(current_year, current_month, 1)
             last_day == IF current_month = 2 THEN 28
                         ELSE DaysInMonth(current_year, current_month)
             month_end == MkDate(current_year, current_month, last_day)
             next == DictSet(data, NewBucket(month_start, month_start, month_end))
         IN  IF current_month = 12
             THEN MonthlyBucketsShortFebruary(next, current_year + 1, 1, end_date)
             ELSE MonthlyBucketsShortFebruary(next, current_year, current_month + 1, end_date)
    ELSE data

RECURSIVE MonthlyBuckets(_, _, _, _)
MonthlyBuckets(data, current_year, current_month, end_date) ==
    IF MonthLoopCond(current_year, current_month, end_date)
    THEN LET month_start == MkDate(current_year, current_month, 1)
             last_day == DaysInMonth(current_year, current_month)
             month_end == MkDate(current_year, current_month, last_day)
             next == DictSet(data, NewBucket(month_start, month_start, month_end))
         IN  IF current_month = 12
             THEN MonthlyBuckets(next, current_year + 1, 1, end_date)
             ELSE MonthlyBuckets(next, current_year, current_month + 1, end_date)
    ELSE data

\* for year in range(year, stop)
RECURSIVE YearlyBuckets(_, _, _)
YearlyBuckets(data, year, stop) ==
    IF year < stop
    THEN YearlyBuckets(DictSet(data, NewBucket(year, MkDate(year, 1, 1), MkDate(year, 12, 31))),
                       year + 1, stop)
    ELSE data

-----------------------------------------------------------------------------
(* Folding the sales into the buckets *)

DayKey(sale) == sale.sale_date.date

\* mutant: the sale's week starts on Sunday, the buckets' on Monday
WeekKeySunday(sale) == sale.sale_date.date - ((Weekday(sale.sale_date.date) + 1) % 7)

WeekKey(sale) == sale.sale_date.date - Weekday(sale.sale_date.date)

MonthKey(sale) == MkDate(Year(sale.sale_date.date), Month(sale.sale_date.date), 1)

YearKey(sale) == Year(sale.sale_date.date)

SaleKey(period, sale) ==
    IF period = "daily" THEN DayKey(sale)
    ELSE IF period = "weekly" THEN WeekKey(sale)
    ELSE IF period = "monthly" THEN MonthKey(sale)
    ELSE YearKey(sale)

\* mutant: the revenue is assigned, not added (= for +=)
AddSaleAssign(data, key, sale) ==
    [i \in DOMAIN data |->
        IF data[i].key = key
        THEN [data[i] EXCEPT !.total_revenue = sale.total_amount,
                             !.total_sales = @ + SumQuantity(sale.items),
                             !.order_count = @ + 1]
        ELSE data[i]]

\* mutant: the order is not counted (order_count += 1 left out)
AddSaleUncounted(data, key, sale) ==
    [i \in DOMAIN data |->
        IF data[i].key = key
        THEN [data[i] EXCEPT !.total_revenue = FloatAdd(@, sale.total_amount),
                             !.total_sales = @ + SumQuantity(sale.items)]
        ELSE data[i]]

\* mutation of AddSale: the updated bucket is taken out and put back, which
\* moves its key to the end of the dict
AddSaleMovedLast(data, key, sale) ==
    LET old == SelectSeq(data, LAMBDA b : b.key = key)
        rest == SelectSeq(data, LAMBDA b : b.key # key)
    IN  rest \o [i \in DOMAIN old |->
                    [old[i] EXCEPT !.total_revenue = FloatAdd(@, sale.total_amount),
                                   !.total_sales = @ + SumQuantity(sale.items),
                                   !.order_count = @ + 1]]

\* the three += of one loop iteration, on the bucket with this key
AddSale(data, key, sale) ==
    [i \in DOMAIN data |->
        IF data[i].key = key
        THEN [data[i] EXCEPT !.total_revenue = FloatAdd(@, sale.total_amount),
                             !.total_sales = @ + SumQuantity(sale.items),
                             !.order_count = @ + 1]
        ELSE data[i]]

\* mutation of FoldSales: a sale whose key is missing gets a bucket of its
\* own (data.setdefault for the membership test)
RECURSIVE FoldSalesSetDefault(_, _, _)
FoldSalesSetDefault(data, sales, period) ==
    IF sales = <<>> THEN data
    ELSE LET key == SaleKey(period, Head(sales))
             day == Head(sales).sale_date.date
         IN  FoldSalesSetDefault(
                 AddSale(IF key \in Keys(data) THEN data
                         ELSE DictSet(data, NewBucket(key, day, day)),
                         key, Head(sales)),
                 Tail(sales), period)

\* for sale in sales: if key in data: ...
RECURSIVE FoldSales(_, _, _)
FoldSales(data, sales, period) ==
    IF sales = <<>> THEN data
    ELSE LET key == SaleKey(period, Head(sales))
         IN  FoldSales(IF key \in Keys(data) THEN AddSale(data, key, Head(sales)) ELSE data,
                       Tail(sales), period)

-----------------------------------------------------------------------------
(* The response records *)

\* mutant: the quotient without its guard
AvgOrderUnguarded(bucket) == Div(bucket.total_revenue, bucket.order_count)

AvgOrder(bucket) ==
    IF bucket.order_count > 0 THEN Div(bucket.total_revenue, bucket.order_count) ELSE Zero

\* RevenueResponse.category_name: Optional[str] takes None or a str, and
\* pydantic turns any other value down with a ValidationError
ValidCategoryName(value) == value.tag \in {"none", "str"}

RevenueResponse(bucket, category_name) ==
    [period_start |-> bucket.start_date,
     period_end |-> bucket.end_date,
     total_revenue |-> bucket.total_revenue,
     total_sales |-> bucket.total_sales,
     average_order_value |-> AvgOrder(bucket),
     category_name |-> category_name]

FormatRecords(data, category_name) ==
    [i \in DOMAIN data |-> RevenueResponse(data[i], category_name)]

\* building record i raises: the quotient first, then the constructor
RecordError(bucket, category_name) ==
    IF ~AvgOrder(bucket).ok THEN "ZeroDivisionError"
    ELSE IF ~ValidCategoryName(category_name) THEN "ValidationError"
    ELSE ""

\* the exception the formatting loop raises, "" if it raises none
FormatError(data, category_name) ==
    LET bad == {i \in DOMAIN data : RecordError(data[i], category_name) # ""}
    IN  IF bad = {} THEN ""
        ELSE RecordError(data[CHOOSE i \in bad : \A j \in bad : i <= j], category_name)

-----------------------------------------------------------------------------
(* _group_revenue_by_day / _week / _month / _year up to the end of the fold *)

GroupRevenueByDay(sales, start_date, end_date) ==
    FoldSales(DailyBuckets(start_date, end_date), sales, "daily")

GroupRevenueByWeek(sales, start_date, end_date) ==
    FoldSales(WeeklyBuckets(<<>>, FirstDay(start_date), end_date), sales, "weekly")

GroupRevenueByMonth(sales, start_date, end_date) ==
    FoldSales(MonthlyBuckets(<<>>, Year(start_date), Month(start_date), end_date),
              sales, "monthly")

GroupRevenueByYear(sales, start_date, end_date) ==
    FoldSales(YearlyBuckets(<<>>, Year(start_date), Year(end_date) + 1), sales, "annual")

-----------------------------------------------------------------------------
(* compare_revenue: the totals of the two periods and their differences *)

\* a running float sum, from the left
RECURSIVE SumFloats(_)
SumFloats(amounts) ==
    IF amounts = <<>> THEN 0
    ELSE FloatAdd(SumFloats(SubSeq(amounts, 1, Len(amounts) - 1)), amounts[Len(amounts)])

\* sum(item.total_revenue for item in period_data): x + 0.0 is x, so the
\* running sum only moves at the records that have revenue
SumRevenue(records) ==
    LET paid == SelectSeq(records, LAMBDA r : r.total_revenue # 0)
    IN  SumFloats([i \in DOMAIN paid |-> paid[i].total_revenue])

RECURSIVE SumSales(_)
SumSales(records) ==
    IF records = <<>> THEN 0 ELSE Head(records).total_sales + SumSales(Tail(records))

PeriodAvgOrder(total_revenue, total_sales) ==
    IF total_sales > 0 THEN Div(total_revenue, total_sales) ELSE Zero

RevenuePeriodData(start_date, end_date, records) ==
    [period_name |-> <<start_date, end_date>>,
     data |-> records,
     total_revenue |-> SumRevenue(records),
     total_sales |-> SumSales(records),
     average_order_value |-> PeriodAvgOrder(SumRevenue(records), SumSales(records))]

\* mutation of ChangePct: the division without its guard
ChangePctUnguarded(change, base) == Div(change * 100, base)

ChangePct(change, base) == IF base > 0 THEN Div(change * 100, base) ELSE Zero

\* mutation of RevenueCompareResponse: the differences taken the other way round
RevenueCompareResponseSwapped(a, period1_data, period2_data) ==
    LET period1 == RevenuePeriodData(a.period1_start, a.period1_end, period1_data)
        period2 == RevenuePeriodData(a.period2_start, a.period2_end, period2_data)
        revenue_change == FloatSub(period1.total_revenue, period2.total_revenue)
        sales_change == period1.total_sales - period2.total_sales
    IN  [period1 |-> period1,
         period2 |-> period2,
         revenue_change |-> revenue_change,
         revenue_change_percentage |-> ChangePct(revenue_change, period1.total_revenue),
         sales_change |-> sales_change,
         sales_change_percentage |-> ChangePct(sales_change, period1.total_sales)]

RevenueCompareResponse(a, period1_data, period2_data) ==
    LET period1 == RevenuePeriodData(a.period1_start, a.period1_end, period1_data)
        period2 == RevenuePeriodData(a.period2_start, a.period2_end, period2_data)
        revenue_change == FloatSub(period2.total_revenue, period1.total_revenue)
        sales_change == period2.total_sales - period1.total_sales
    IN  [period1 |-> period1,
         period2 |-> period2,
         revenue_change |-> revenue_change,
         revenue_change_percentage |-> ChangePct(revenue_change, period1.total_revenue),
         sales_change |-> sales_change,
         sales_change_percentage |-> ChangePct(sales_change, period1.total_sales)]

\* a division of compare_revenue whose divisor is zero raises
CompareError(r) ==
    IF /\ r.period1.average_order_value.ok
       /\ r.period2.average_order_value.ok
       /\ r.revenue_change_percentage.ok
       /\ r.sales_change_percentage.ok
    THEN "" ELSE "ZeroDivisionError"

-----------------------------------------------------------------------------
(* The request *)

BlankFrame ==
    [period |-> "none", start_date |-> 0, end_date |-> 0, category_id |-> None,
     sales |-> <<>>, data |-> <<>>, result |-> <<>>]

NoArgs == [period |-> "none"]

\* the three tables empty; now counts the commits, which is what the clock
\* of created_at, updated_at and last_updated tells apart
EmptyCatalog ==
    [products |-> {}, inventory |-> {}, inventory_history |-> {}, now |-> 0]

\* a request that has not arrived yet
NoRequest ==
    [pc |-> "idle", op |-> "none", args |-> NoArgs, call |-> 0,
     frames |-> <<BlankFrame, BlankFrame>>, response |-> <<>>, error |-> ""]

Init ==
    /\ store = <<>>
    /\ pc = "idle"
    /\ op = "none"
    /\ args = NoArgs
    /\ call = 0
    /\ frames = <<BlankFrame, BlankFrame>>
    /\ response = <<>>
    /\ error = ""
    /\ suspended = NoRequest
    /\ catalog = EmptyCatalog

\* SalesService.create_sale, its commit: the row gets the next id, and
\* sale_date defaults to the clock
CreateSale ==
    \E sale_data \in ItemLists, now \in SaleMoments :
        /\ Len(store) < MaxSales
        /\ store' = Append(store, NewSale(Len(store) + 1, sale_data, now))
        /\ UNCHANGED <<suspended, catalog, pc, op, args, call, frames, response, error>>

\* get_revenue_by_period from its entry to its await: the dates are resolved
\* and the statement is built; replace() may raise
EnterCall(n, period, start_date, end_date, category_id, today) ==
    LET end == ResolveEnd(end_date, today)
        start == ResolveStart(period, start_date, end)
    IN  /\ call' = n
        /\ IF start.ok
           THEN /\ frames' = [frames EXCEPT ![n] =
                      [period |-> period, start_date |-> start.date, end_date |-> end,
                       category_id |-> category_id,
                       sales |-> <<>>, data |-> <<>>, result |-> <<>>]]
                /\ pc' = "execute"
                /\ error' = ""
           ELSE /\ frames' = frames
                /\ pc' = "raised"
                /\ error' = "ValueError"

OptDates == {None} \cup {SomeDate(d) : d \in RequestDates}

OptCategoryIds == {None} \cup {SomeInt(c) : c \in CategoryIds}

\* GET /daily, /weekly, /monthly, /annual
GetRevenue ==
    \E period \in Periods, start_date \in OptDates, end_date \in OptDates,
       category_id \in OptCategoryIds, today \in TodayDates :
        /\ pc = "idle"
        /\ op' = "get"
        /\ args' = [period |-> period, start_date |-> start_date, end_date |-> end_date,
                    category_id |-> category_id]
        /\ EnterCall(1, period, start_date, end_date, category_id, today)
        /\ UNCHANGED <<suspended, catalog, store, response>>

\* await self.db.execute(query); result.scalars().all()
ExecuteQuery ==
    /\ pc = "execute"
    /\ LET f == frames[call]
       IN  frames' = [frames EXCEPT ![call].sales =
                         QuerySales(store, f.start_date, f.end_date, f.category_id)]
    /\ pc' = "group"
    /\ UNCHANGED <<suspended, catalog, store, op, args, call, response, error>>

\* the grouping function ran up to its return (or raised), and the caller
\* runs on to its next await or its own return
Grouped(data) ==
    LET f == frames[call]
        err == FormatError(data, f.category_id)
        result == IF err = "" THEN FormatRecords(data, f.category_id) ELSE <<>>
        done == [frames EXCEPT ![call].data = data, ![call].result = result]
    IN  IF err # ""
        THEN /\ frames' = done
             /\ pc' = "raised"
             /\ error' = err
             /\ UNCHANGED <<suspended, catalog, store, op, args, call, response>>
        ELSE IF op = "get"
        THEN /\ frames' = done
             /\ pc' = "done"
             /\ response' = result
             /\ UNCHANGED <<suspended, catalog, store, op, args, call, error>>
        ELSE IF call = 1
        THEN /\ call' = 2
             /\ frames' = [done EXCEPT ![2] =
                   [period |-> args.period, start_date |-> args.period2_start,
                    end_date |-> args.period2_end, category_id |-> args.category_id,
                    sales |-> <<>>, data |-> <<>>, result |-> <<>>]]
             /\ pc' = "execute"
             /\ UNCHANGED <<suspended, catalog, store, op, args, response, error>>
        ELSE LET r == RevenueCompareResponse(args, frames[1].result, result)
             IN  IF CompareError(r) # ""
                 THEN /\ frames' = done
                      /\ pc' = "raised"
                      /\ error' = CompareError(r)
                      /\ UNCHANGED <<suspended, catalog, store, op, args, call, response>>
                 ELSE /\ frames' = done
                      /\ pc' = "done"
                      /\ response' = r
                      /\ UNCHANGED <<suspended, catalog, store, op, args, call, error>>

GroupByDay ==
    /\ pc = "group"
    /\ frames[call].period = "daily"
    /\ Grouped(GroupRevenueByDay(frames[call].sales, frames[call].start_date,
                                 frames[call].end_date))

GroupByWeek ==
    /\ pc = "group"
    /\ frames[call].period = "weekly"
    /\ Grouped(GroupRevenueByWeek(frames[call].sales, frames[call].start_date,
                                  frames[call].end_date))

GroupByMonth ==
    /\ pc = "group"
    /\ frames[call].period = "monthly"
    /\ Grouped(GroupRevenueByMonth(frames[call].sales, frames[call].start_date,
                                   frames[call].end_date))

GroupByYear ==
    /\ pc = "group"
    /\ frames[call].period = "annual"
    /\ Grouped(GroupRevenueByYear(frames[call].sales, frames[call].start_date,
                                  frames[call].end_date))

\* the ranges GET /compare is asked about: a week inside January, the span
\* from New Year's Eve to the leap day, and an inverted range
CompareRanges ==
    { <<MkDate(2023, 12, 31), MkDate(2024, 1, 3)>>,
      <<MkDate(2024, 1, 3), MkDate(2024, 2, 29)>>,
      <<MkDate(2024, 2, 29), MkDate(2024, 2, 28)>> }

\* GET /compare
CompareRevenue ==
    \E period \in Periods, r1 \in CompareRanges, r2 \in CompareRanges,
       category_id \in OptCategoryIds :
        /\ pc = "idle"
        /\ op' = "compare"
        /\ args' = [period |-> period,
                    period1_start |-> r1[1], period1_end |-> r1[2],
                    period2_start |-> r2[1], period2_end |-> r2[2],
                    category_id |-> category_id]
        /\ EnterCall(1, period, SomeDate(r1[1]), SomeDate(r1[2]), category_id, r1[2])
        /\ UNCHANGED <<suspended, catalog, store, response>>

Next ==
    \/ CreateSale
    \/ GetRevenue
    \/ ExecuteQuery
    \/ GroupByDay
    \/ GroupByWeek
    \/ GroupByMonth
    \/ GroupByYear

Spec == Init /\ [][Next]_vars

NextCompare ==
    \/ CreateSale
    \/ CompareRevenue
    \/ ExecuteQuery
    \/ GroupByDay
    \/ GroupByWeek
    \/ GroupByMonth
    \/ GroupByYear

SpecCompare == Init /\ [][NextCompare]_vars

\* the dates of the calendar requests: New Year's Eve and New Year's Day
\* (a Sunday and a Monday), and the eight days from Monday 26 February 2024
\* over the leap day to Monday 4 March 2024
CalendarDates ==
    {MkDate(2023, 12, 31), MkDate(2024, 1, 1)}
        \cup (MkDate(2024, 2, 26) .. MkDate(2024, 3, 4))

\* GET /daily, /weekly, /monthly, /annual with both dates given and no
\* category filter
GetRevenueBetween ==
    \E period \in Periods, start_date \in CalendarDates, end_date \in CalendarDates :
        /\ pc = "idle"
        /\ op' = "get"
        /\ args' = [period |-> period, start_date |-> SomeDate(start_date),
                    end_date |-> SomeDate(end_date), category_id |-> None]
        /\ EnterCall(1, period, SomeDate(start_date), SomeDate(end_date), None, end_date)
        /\ UNCHANGED <<suspended, catalog, store, response>>

NextCalendar ==
    \/ CreateSale
    \/ GetRevenueBetween
    \/ ExecuteQuery
    \/ GroupByDay
    \/ GroupByWeek
    \/ GroupByMonth
    \/ GroupByYear

SpecCalendar == Init /\ [][NextCalendar]_vars

\* SaleCreate.items of the ledger: one line at the first price whose
\* successor is no float, and one line at price 1
LedgerItemLists ==
    { <<[product_id |-> 1, quantity |-> 1, unit_price |-> Pow2(MantissaBits)]>>,
      <<[product_id |-> 1, quantity |-> 1, unit_price |-> 1]>> }

\* create_sale of a ledger sale, all of them on the leap day
CreateLedgerSale ==
    \E sale_data \in LedgerItemLists :
        /\ Len(store) < MaxLedgerSales
        /\ store' = Append(store, NewSale(Len(store) + 1, sale_data,
                                          Combine(MkDate(2024, 2, 29), TimeMin)))
        /\ UNCHANGED <<suspended, catalog, pc, op, args, call, frames, response, error>>

NextLedger ==
    \/ CreateLedgerSale
    \/ GetRevenueBetween
    \/ ExecuteQuery
    \/ GroupByDay
    \/ GroupByWeek
    \/ GroupByMonth
    \/ GroupByYear

SpecLedger == Init /\ [][NextLedger]_vars

\* _group_revenue_by_day/week/month/year called with a list of sales that
\* nothing has filtered to the range: every stored sale is supplied
SupplySales ==
    \E period \in Periods, start_date \in RequestDates, end_date \in RequestDates :
        /\ pc = "idle"
        /\ op' = "get"
        /\ args' = [period |-> period, start_date |-> SomeDate(start_date),
                    end_date |-> SomeDate(end_date), category_id |-> None]
        /\ call' = 1
        /\ frames' = [frames EXCEPT ![1] =
               [period |-> period, start_date |-> start_date, end_date |-> end_date,
                category_id |-> None, sales |-> store, data |-> <<>>, result |-> <<>>]]
        /\ pc' = "group"
        /\ UNCHANGED <<suspended, catalog, store, response, error>>

NextGroup ==
    \/ CreateSale
    \/ SupplySales
    \/ GroupByDay
    \/ GroupByWeek
    \/ GroupByMonth
    \/ GroupByYear

SpecGroup == Init /\ [][NextGroup]_vars

\* the request the event loop is running
Running ==
    [pc |-> pc, op |-> op, args |-> args, call |-> call,
     frames |-> frames, response |-> response, error |-> error]

\* mutation of Switch: the locals of get_revenue_by_period stay behind, as if
\* they were attributes of one service object that both requests use
SwitchSharedLocals ==
    /\ pc \in {"idle", "execute", "done", "raised"}
    /\ suspended' = [Running EXCEPT !.frames = suspended.frames]
    /\ pc' = suspended.pc
    /\ op' = suspended.op
    /\ args' = suspended.args
    /\ call' = suspended.call
    /\ frames' = frames
    /\ response' = suspended.response
    /\ error' = suspended.error
    /\ UNCHANGED <<store, catalog>>

\* the event loop turns to the other request: the running one is at its
\* await (or has not started, or is over), and each request has its own
\* session, service object and locals
Switch ==
    /\ pc \in {"idle", "execute", "done", "raised"}
    /\ suspended' = Running
    /\ pc' = suspended.pc
    /\ op' = suspended.op
    /\ args' = suspended.args
    /\ call' = suspended.call
    /\ frames' = suspended.frames
    /\ response' = suspended.response
    /\ error' = suspended.error
    /\ UNCHANGED <<store, catalog>>

\* create_sale before either request has arrived
LoadSale ==
    /\ pc = "idle"
    /\ suspended.pc = "idle"
    /\ CreateSale

\* the two ranges the overlapping requests ask about
OverlapRanges ==
    << <<MkDate(2023, 12, 31), MkDate(2024, 1, 3)>>,
       <<MkDate(2024, 1, 3), MkDate(2024, 2, 29)>> >>

\* GET /daily, /weekly, /monthly, /annual over one of the two ranges
GetRevenueOverlapping ==
    \E period \in Periods, n \in DOMAIN OverlapRanges :
        /\ pc = "idle"
        /\ op' = "get"
        /\ args' = [period |-> period, start_date |-> SomeDate(OverlapRanges[n][1]),
                    end_date |-> SomeDate(OverlapRanges[n][2]), category_id |-> None]
        /\ EnterCall(1, period, SomeDate(OverlapRanges[n][1]),
                     SomeDate(OverlapRanges[n][2]), None, OverlapRanges[n][2])
        /\ UNCHANGED <<store, catalog, response, suspended>>

\* GET /compare of the two ranges, by day or by month
CompareOverlapping ==
    \E period \in {"daily", "monthly"} :
        /\ pc = "idle"
        /\ op' = "compare"
        /\ args' = [period |-> period,
                    period1_start |-> OverlapRanges[1][1],
                    period1_end |-> OverlapRanges[1][2],
                    period2_start |-> OverlapRanges[2][1],
                    period2_end |-> OverlapRanges[2][2],
                    category_id |-> None]
        /\ EnterCall(1, period, SomeDate(OverlapRanges[1][1]),
                     SomeDate(OverlapRanges[1][2]), None, OverlapRanges[1][2])
        /\ UNCHANGED <<store, catalog, response, suspended>>

NextOverlap ==
    \/ LoadSale
    \/ GetRevenueOverlapping
    \/ CompareOverlapping
    \/ ExecuteQuery
    \/ GroupByDay
    \/ GroupByWeek
    \/ GroupByMonth
    \/ GroupByYear
    \/ Switch

SpecOverlap == Init /\ [][NextOverlap]_vars

-----------------------------------------------------------------------------
(* The product catalogue: services/products.py and services/inventory.py    *)
(* over tables "products", "inventory" and "inventory_history" of the       *)
(* database DATABASE_URL names by default, SQLite.  There a new row of an   *)
(* INTEGER PRIMARY KEY table gets the largest id of the table plus one,     *)
(* foreign keys are not enforced (no PRAGMA foreign_keys), a SELECT reads   *)
(* what is committed, and one connection at a time can be between its first *)
(* write and its commit.  category_name and the prices of the responses are *)
(* left out: the categories are fixed.                                      *)

\* SQL NULL, Python None
Null == "NULL"

CatalogOps ==
    {"create_product", "update_product", "delete_product",
     "update_inventory", "get_low_stock_inventory"}

MaxOf(S) == CHOOSE x \in S : \A y \in S : y <= x

\* the id INSERT gives a new row of the table
NextId(rows) == IF rows = {} THEN 1 ELSE MaxOf({r.id : r \in rows}) + 1

\* the ids a request can name
ProductIds == 1..MaxCommits

\* ProductCreate: two products of two categories
ProductInputs ==
    { [name |-> "pen", description |-> Null, price |-> 3, category_id |-> 1, sku |-> "PEN"],
      [name |-> "ink", description |-> "blue", price |-> 5, category_id |-> 2, sku |-> "INK"] }

\* Product(...) as INSERTed: the defaults of created_at and updated_at
ProductRow(id, product_data, now) ==
    [id |-> id, name |-> product_data.name, description |-> product_data.description,
     price |-> product_data.price, category_id |-> product_data.category_id,
     sku |-> product_data.sku, created_at |-> now, updated_at |-> now]

\* Inventory(product_id=product.id, quantity=0) as INSERTed
InventoryRow(id, product_id, now) ==
    [id |-> id, product_id |-> product_id, quantity |-> 0, last_updated |-> now]

ProductById(product_id) == {p \in catalog.products : p.id = product_id}

\* Product.inventory (uselist=False): the inventory rows of the product
InventoryOf(product_id) == {i \in catalog.inventory : i.product_id = product_id}

\* _format_product_response
ProductResponse(product) ==
    [id |-> product.id, name |-> product.name, description |-> product.description,
     price |-> product.price, category_id |-> product.category_id, sku |-> product.sku,
     created_at |-> product.created_at, updated_at |-> product.updated_at,
     inventory_quantity |->
         IF InventoryOf(product.id) = {} THEN 0
         ELSE (CHOOSE i \in InventoryOf(product.id) : TRUE).quantity]

\* the connection of the request is between its first write and its commit
WriteLockHeld(t) == t.op \in CatalogOps /\ t.pc = "commit"

\* an exception leaves the service: get_db rolls the session back
Raise(e) ==
    /\ pc' = "raised"
    /\ error' = e
    /\ UNCHANGED <<store, catalog, op, args, call, frames, response, suspended>>

\* mutation of NotFound: the router returns what the service returned, with
\* status 200
NotFoundReturned(returned) ==
    /\ pc' = "done"
    /\ response' = returned
    /\ UNCHANGED <<store, catalog, op, args, call, frames, error, suspended>>

\* the service returned None or False and the router raises HTTPException(404)
NotFound(returned) ==
    /\ pc' = "raised"
    /\ error' = "HTTP_404_NOT_FOUND"
    /\ response' = returned
    /\ UNCHANGED <<store, catalog, op, args, call, frames, suspended>>

\* the response has gone out and the next request can come
RequestOver ==
    /\ op \in CatalogOps
    /\ pc \in {"done", "raised"}
    /\ pc' = "idle"
    /\ op' = "none"
    /\ args' = NoArgs
    /\ call' = 0
    /\ frames' = <<BlankFrame, BlankFrame>>
    /\ response' = <<>>
    /\ error' = ""
    /\ UNCHANGED <<store, catalog, suspended>>

\* POST /products: create_product up to its await self.db.flush()
CreateProduct ==
    \E product_data \in ProductInputs :
        /\ pc = "idle"
        /\ catalog.now < MaxCommits
        /\ op' = "create_product"
        /\ args' = product_data
        /\ pc' = "flush"
        /\ call' = 0
        /\ error' = ""
        /\ UNCHANGED <<store, catalog, frames, response, suspended>>

\* mutation of FlushProduct: the product row is committed on its own (a
\* commit where the flush is)
FlushProductCommitted ==
    /\ op = "create_product" /\ pc = "flush"
    /\ ~WriteLockHeld(suspended)
    /\ IF \E p \in catalog.products : p.sku = args.sku
       THEN Raise("IntegrityError")
       ELSE LET product == ProductRow(NextId(catalog.products), args, catalog.now)
            IN  /\ frames' = [frames EXCEPT ![1] = [product |-> product]]
                /\ catalog' = [catalog EXCEPT !.products = @ \cup {product}]
                /\ pc' = "commit"
                /\ UNCHANGED <<store, op, args, call, response, error, suspended>>

\* await self.db.flush(): INSERT INTO products; sku is unique
FlushProduct ==
    /\ op = "create_product" /\ pc = "flush"
    /\ ~WriteLockHeld(suspended)
    /\ IF \E p \in catalog.products : p.sku = args.sku
       THEN Raise("IntegrityError")
       ELSE /\ frames' = [frames EXCEPT ![1] =
                   [product |-> ProductRow(NextId(catalog.products), args, catalog.now)]]
            /\ pc' = "commit"
            /\ UNCHANGED <<store, catalog, op, args, call, response, error, suspended>>

\* await self.db.commit(): INSERT INTO inventory, where product_id is
\* unique, and COMMIT of both rows
CommitProduct ==
    /\ op = "create_product" /\ pc = "commit"
    /\ LET product == frames[1].product
       IN  IF InventoryOf(product.id) # {}
           THEN Raise("IntegrityError")
           ELSE /\ catalog' = [catalog EXCEPT
                       !.products = @ \cup {product},
                       !.inventory = @ \cup {InventoryRow(NextId(catalog.inventory),
                                                          product.id, catalog.now)},
                       !.now = @ + 1]
                /\ pc' = "reload"
                /\ UNCHANGED <<store, op, args, call, frames, response, error, suspended>>

\* the select that loads the product with its inventory again, and the
\* response made of it; scalar_one() raises when the row is gone
ReloadProduct ==
    /\ op \in {"create_product", "update_product"} /\ pc = "reload"
    /\ IF ProductById(frames[1].product.id) = {}
       THEN Raise("NoResultFound")
       ELSE /\ response' = ProductResponse(
                   CHOOSE p \in ProductById(frames[1].product.id) : TRUE)
            /\ pc' = "done"
            /\ UNCHANGED <<store, catalog, op, args, call, frames, error, suspended>>

\* DELETE /products/{product_id}: delete_product up to its first await
DeleteProduct ==
    \E product_id \in ProductIds :
        /\ pc = "idle"
        /\ catalog.now < MaxCommits
        /\ op' = "delete_product"
        /\ args' = [product_id |-> product_id]
        /\ pc' = "select"
        /\ call' = 0
        /\ error' = ""
        /\ UNCHANGED <<store, catalog, frames, response, suspended>>

\* the select of delete_product and its "if not product: return False"
SelectToDelete ==
    /\ op = "delete_product" /\ pc = "select"
    /\ IF ProductById(args.product_id) = {}
       THEN NotFound(FALSE)
       ELSE /\ pc' = "delete"
            /\ UNCHANGED <<store, catalog, op, args, call, frames, response, error, suspended>>

\* await self.db.execute(sqlalchemy_delete(Product).where(...))
ExecuteDelete ==
    /\ op = "delete_product" /\ pc = "delete"
    /\ ~WriteLockHeld(suspended)
    /\ pc' = "commit"
    /\ UNCHANGED <<store, catalog, op, args, call, frames, response, error, suspended>>

\* await self.db.commit(); return True: the row of table products is gone,
\* the statement reaches no other table
CommitDelete ==
    /\ op = "delete_product" /\ pc = "commit"
    /\ catalog' = [catalog EXCEPT
           !.products = {p \in @ : p.id # args.product_id},
           !.now = @ + 1]
    /\ response' = TRUE
    /\ pc' = "done"
    /\ UNCHANGED <<store, op, args, call, frames, error, suspended>>

\* ProductUpdate as dumped with exclude_unset: the fields the request set,
\* a field set to null included
ProductPatches ==
    { <<>>,
      [name |-> "cap"],
      [description |-> Null],
      [name |-> "cap", description |-> "red"],
      [sku |-> "INK"],
      [name |-> Null] }

\* the columns of table products that are NOT NULL
RequiredColumns == {"name", "price", "category_id", "sku"}

\* mutation of Patched: every field the schema has is written, the unset
\* ones as null (model_dump() without exclude_unset)
PatchedWithUnset(product, update_data, now) ==
    [f \in DOMAIN product |->
        IF f \in DOMAIN update_data THEN update_data[f]
        ELSE IF f = "updated_at" THEN now
        ELSE IF f \in {"name", "description", "sku"} THEN Null
        ELSE product[f]]

\* the row after UPDATE products SET **update_data: updated_at has
\* onupdate=datetime.utcnow
Patched(product, update_data, now) ==
    [f \in DOMAIN product |->
        IF f \in DOMAIN update_data THEN update_data[f]
        ELSE IF f = "updated_at" THEN now
        ELSE product[f]]

\* a constraint of table products that the UPDATE breaks
UpdateViolates(product_id, update_data) ==
    \/ \E f \in DOMAIN update_data \cap RequiredColumns : update_data[f] = Null
    \/ /\ "sku" \in DOMAIN update_data
       /\ \E p \in catalog.products : p.id # product_id /\ p.sku = update_data.sku

\* PUT /products/{product_id}: update_product up to its first await
UpdateProduct ==
    \E product_id \in ProductIds, product_data \in ProductPatches :
        /\ pc = "idle"
        /\ catalog.now < MaxCommits
        /\ op' = "update_product"
        /\ args' = [product_id |-> product_id, product_data |-> product_data]
        /\ pc' = "select"
        /\ call' = 0
        /\ error' = ""
        /\ UNCHANGED <<store, catalog, frames, response, suspended>>

\* the select of update_product, "if not product: return None", and the
\* return of the product as it is when update_data is empty
SelectToUpdate ==
    /\ op = "update_product" /\ pc = "select"
    /\ IF ProductById(args.product_id) = {}
       THEN NotFound(Null)
       ELSE LET product == CHOOSE p \in ProductById(args.product_id) : TRUE
            IN  /\ frames' = [frames EXCEPT ![1] = [product |-> product]]
                /\ IF DOMAIN args.product_data = {}
                   THEN /\ response' = ProductResponse(product)
                        /\ pc' = "done"
                   ELSE /\ response' = response
                        /\ pc' = "update"
                /\ UNCHANGED <<store, catalog, op, args, call, error, suspended>>

\* await self.db.execute(update(Product).where(...).values(**update_data))
ExecuteUpdate ==
    /\ op = "update_product" /\ pc = "update"
    /\ ~WriteLockHeld(suspended)
    /\ IF UpdateViolates(args.product_id, args.product_data)
       THEN Raise("IntegrityError")
       ELSE /\ pc' = "commit"
            /\ UNCHANGED <<store, catalog, op, args, call, frames, response, error, suspended>>

\* await self.db.commit() of update_product
CommitUpdate ==
    /\ op = "update_product" /\ pc = "commit"
    /\ catalog' = [catalog EXCEPT
           !.products = {IF p.id = args.product_id
                         THEN Patched(p, args.product_data, catalog.now) ELSE p : p \in @},
           !.now = @ + 1]
    /\ pc' = "reload"
    /\ UNCHANGED <<store, op, args, call, frames, response, error, suspended>>

NextProducts ==
    \/ CreateProduct
    \/ FlushProduct
    \/ CommitProduct
    \/ ReloadProduct
    \/ UpdateProduct
    \/ SelectToUpdate
    \/ ExecuteUpdate
    \/ CommitUpdate
    \/ DeleteProduct
    \/ SelectToDelete
    \/ ExecuteDelete
    \/ CommitDelete
    \/ RequestOver

SpecProducts == Init /\ [][NextProducts]_vars

-----------------------------------------------------------------------------
(* services/inventory.py: update_inventory and get_low_stock_inventory *)

\* InventoryUpdate.quantity: int, ge=0
InventoryQuantities == {0, 1, 2}

\* threshold: int = Query(10, ge=1)
Thresholds == {1, 2}

\* category_id of GET /low-stock; "if category_id:" takes 0 as it takes None
CategoryFilters == {0, 1, 2}

\* select(Inventory).join(Inventory.product): the inventory rows of the
\* product that have their product
JoinedInventoryOf(product_id) ==
    {i \in InventoryOf(product_id) : ProductById(i.product_id) # {}}

\* InventoryResponse(...) of an inventory row and its product
InventoryResponse(item) ==
    LET product == CHOOSE p \in ProductById(item.product_id) : TRUE
    IN  [id |-> item.id, product_id |-> item.product_id, quantity |-> item.quantity,
         last_updated |-> item.last_updated,
         product_name |-> product.name, product_sku |-> product.sku]

\* mutation of HistoryEntry: previous_quantity is read after the assignment
\* to inventory.quantity
HistoryEntryAfterAssignment(id, inventory, quantity) ==
    [id |-> id, inventory_id |-> inventory.id,
     quantity_change |-> quantity - quantity,
     previous_quantity |-> quantity,
     new_quantity |-> quantity]

\* InventoryHistory(...) of update_inventory; previous_quantity is the
\* quantity of the row as the session loaded it
HistoryEntry(id, inventory, quantity) ==
    [id |-> id, inventory_id |-> inventory.id,
     quantity_change |-> quantity - inventory.quantity,
     previous_quantity |-> inventory.quantity,
     new_quantity |-> quantity]

\* PUT /inventory/{product_id}: update_inventory up to its first await
UpdateInventory ==
    \E product_id \in ProductIds, quantity \in InventoryQuantities :
        /\ pc = "idle"
        /\ catalog.now < MaxCommits
        /\ op' = "update_inventory"
        /\ args' = [product_id |-> product_id, quantity |-> quantity]
        /\ pc' = "select"
        /\ call' = 0
        /\ error' = ""
        /\ UNCHANGED <<store, catalog, frames, response, suspended>>

\* the select of update_inventory, "if not inventory: return None", and
\* the assignments up to self.db.add(history_entry)
SelectInventory ==
    /\ op = "update_inventory" /\ pc = "select"
    /\ IF JoinedInventoryOf(args.product_id) = {}
       THEN NotFound(Null)
       ELSE /\ frames' = [frames EXCEPT ![1] =
                   [inventory |-> CHOOSE i \in JoinedInventoryOf(args.product_id) : TRUE]]
            /\ pc' = "flush"
            /\ UNCHANGED <<store, catalog, op, args, call, response, error, suspended>>

\* await self.db.flush(): UPDATE inventory and INSERT INTO
\* inventory_history go to the connection, and the response is made of the
\* objects of the session
FlushInventory ==
    /\ op = "update_inventory" /\ pc = "flush"
    /\ ~WriteLockHeld(suspended)
    /\ LET inventory == frames[1].inventory
       IN  /\ frames' = [frames EXCEPT ![1] =
                  [inventory |-> inventory,
                   history_entry |-> HistoryEntry(NextId(catalog.inventory_history),
                                                  inventory, args.quantity)]]
           /\ response' = InventoryResponse([inventory EXCEPT !.quantity = args.quantity])
    /\ pc' = "commit"
    /\ UNCHANGED <<store, catalog, op, args, call, error, suspended>>

\* await session.commit() of get_db.  The UPDATE names the columns whose
\* value differs from the loaded one, so there is none when the quantity
\* asked for is the quantity the session loaded; last_updated has
\* onupdate=datetime.utcnow
CommitInventory ==
    /\ op = "update_inventory" /\ pc = "commit"
    /\ LET inventory == frames[1].inventory
       IN  catalog' = [catalog EXCEPT
               !.inventory =
                   {IF i.id = inventory.id /\ args.quantity # inventory.quantity
                    THEN [i EXCEPT !.quantity = args.quantity, !.last_updated = catalog.now]
                    ELSE i : i \in @},
               !.inventory_history = @ \cup {frames[1].history_entry},
               !.now = @ + 1]
    /\ pc' = "done"
    /\ UNCHANGED <<store, op, args, call, frames, response, error, suspended>>

\* the rows of a result ORDER BY inventory.quantity: any order of the rows
\* in which the quantities do not decrease
OrderedByQuantity(items) ==
    {s \in [1..Cardinality(items) -> items] :
        /\ \A j, k \in DOMAIN s : j # k => s[j] # s[k]
        /\ \A j, k \in DOMAIN s : j < k => s[j].quantity <= s[k].quantity}

\* the rows the query of get_low_stock_inventory selects
LowStock(threshold, category_id) ==
    {i \in catalog.inventory :
        /\ i.quantity <= threshold
        /\ \E p \in ProductById(i.product_id) :
               category_id # 0 => p.category_id = category_id}

\* GET /inventory/low-stock up to the await of its query
GetLowStockInventory ==
    \E threshold \in Thresholds, category_id \in CategoryFilters :
        /\ pc = "idle"
        /\ op' = "get_low_stock_inventory"
        /\ args' = [threshold |-> threshold, category_id |-> category_id]
        /\ pc' = "select"
        /\ call' = 0
        /\ error' = ""
        /\ UNCHANGED <<store, catalog, frames, response, suspended>>

\* the query of get_low_stock_inventory and the list made of its rows
SelectLowStock ==
    /\ op = "get_low_stock_inventory" /\ pc = "select"
    /\ \E inventory_items \in OrderedByQuantity(LowStock(args.threshold, args.category_id)) :
           response' = [k \in DOMAIN inventory_items |-> InventoryResponse(inventory_items[k])]
    /\ pc' = "done"
    /\ UNCHANGED <<store, catalog, op, args, call, frames, error, suspended>>

NextInventory ==
    \/ CreateProduct
    \/ FlushProduct
    \/ CommitProduct
    \/ ReloadProduct
    \/ DeleteProduct
    \/ SelectToDelete
    \/ ExecuteDelete
    \/ CommitDelete
    \/ UpdateInventory
    \/ SelectInventory
    \/ FlushInventory
    \/ CommitInventory
    \/ GetLowStockInventory
    \/ SelectLowStock
    \/ RequestOver

SpecInventory == Init /\ [][NextInventory]_vars

\* the event loop turns to the other request of the catalogue: every step of
\* update_inventory and of create_product ends at an await, and each
\* request has its own session
SwitchSession ==
    /\ pc \in {"idle", "select", "flush", "commit", "reload", "done", "raised"}
    /\ suspended' = Running
    /\ pc' = suspended.pc
    /\ op' = suspended.op
    /\ args' = suspended.args
    /\ call' = suspended.call
    /\ frames' = suspended.frames
    /\ response' = suspended.response
    /\ error' = suspended.error
    /\ UNCHANGED <<store, catalog>>

NextInventoryOverlap ==
    \/ CreateProduct
    \/ FlushProduct
    \/ CommitProduct
    \/ ReloadProduct
    \/ UpdateInventory
    \/ SelectInventory
    \/ FlushInventory
    \/ CommitInventory
    \/ RequestOver
    \/ SwitchSession

SpecInventoryOverlap == Init /\ [][NextInventoryOverlap]_vars

-----------------------------------------------------------------------------
(* Vocabulary of the properties *)

\* the get_revenue_by_period call of a GET /daily ... /annual request
Frame == frames[1]

\* the request returned its list of records
Returned == op = "get" /\ pc = "done"

\* the grouping function of the request has built and filled its buckets
Folded == op = "get" /\ (pc = "done" \/ (pc = "raised" /\ error # "ValueError"))

\* the quotient q equals a / b
RatEq(q, a, b) == q.ok /\ b # 0 /\ q.num * b = a * q.den

RatIsZero(q) == q.ok /\ q.num = 0

SaleDay(sale) == sale.sale_date.date

\* the supplied sales (by position) whose date lies in the bucket's span
SalesIn(sales, bucket) ==
    {i \in DOMAIN sales :
        bucket.start_date <= SaleDay(sales[i]) /\ SaleDay(sales[i]) <= bucket.end_date}

\* the first day of the day, week, month or year a date lies in
PeriodStart(period, d) ==
    IF period = "daily" THEN d
    ELSE IF period = "weekly" THEN d - Weekday(d)
    ELSE IF period = "monthly" THEN MkDate(Year(d), Month(d), 1)
    ELSE MkDate(Year(d), 1, 1)

RECURSIVE SumAmountKeyed(_, _, _)
SumAmountKeyed(sales, period, keys) ==
    IF sales = <<>> THEN 0
    ELSE (IF SaleKey(period, Head(sales)) \in keys THEN Head(sales).total_amount ELSE 0)
         + SumAmountKeyed(Tail(sales), period, keys)

RECURSIVE SumQuantityKeyed(_, _, _)
SumQuantityKeyed(sales, period, keys) ==
    IF sales = <<>> THEN 0
    ELSE (IF SaleKey(period, Head(sales)) \in keys THEN SumQuantity(Head(sales).items) ELSE 0)
         + SumQuantityKeyed(Tail(sales), period, keys)

RECURSIVE SumOrderCount(_)
SumOrderCount(data) ==
    IF data = <<>> THEN 0 ELSE Head(data).order_count + SumOrderCount(Tail(data))

-----------------------------------------------------------------------------
(* Properties *)

\* C1 (as stated): with start_date > end_date every granularity builds no
\* bucket and returns an empty list, and nothing is raised.
C1_InvertedRangeIsEmpty ==
    (op = "get" /\ pc \in {"done", "raised"} /\ Frame.start_date > Frame.end_date)
        => (pc = "done" /\ Frame.data = <<>> /\ response = <<>>)

\* C1 (amended): with start_date > end_date the bucket set is empty exactly
\* when the day (daily), the Monday of the week (weekly), the first of the
\* month (monthly) or 1 January of the year (annual) of start_date is after
\* end_date; then the request returns an empty list and raises nothing.
\* Daily granularity is therefore always empty; the others build the bucket
\* of the week, month or year that the two dates share.
C1_InvertedRangeEmptyUnlessSamePeriod ==
    (Folded /\ Frame.start_date > Frame.end_date)
        => /\ (Frame.data = <<>>) <=> (PeriodStart(Frame.period, Frame.start_date) > Frame.end_date)
           /\ Frame.period = "daily" => Frame.data = <<>>
           /\ Frame.data = <<>> => (pc = "done" /\ response = <<>>)

C1_Witness ==
    /\ Returned
    /\ Frame.period = "monthly"
    /\ Frame.start_date > Frame.end_date
    /\ Len(response) = 1

\* C2: for start_date <= end_date the returned records cover the range and
\* are gapless and non-overlapping: the first starts on or before
\* start_date, the last ends on or after end_date, each has
\* period_start <= period_end, and each starts the day after the one before
\* it ends.
C2_RecordsGaplessCover ==
    (Returned /\ Frame.start_date <= Frame.end_date)
        => /\ response # <<>>
           /\ response[1].period_start <= Frame.start_date
           /\ response[Len(response)].period_end >= Frame.end_date
           /\ \A i \in DOMAIN response : response[i].period_start <= response[i].period_end
           /\ \A i \in DOMAIN response :
                  i > 1 => response[i].period_start = response[i - 1].period_end + 1

C2_Witness ==
    /\ Returned
    /\ Frame.period = "weekly"
    /\ Frame.start_date < Frame.end_date
    /\ Len(response) >= 2
    /\ response[1].period_start < Frame.start_date
    /\ response[Len(response)].period_end > Frame.end_date

\* C3 (as stated, on the calls whose dates resolved; C4 is about the others):
\* for any granularity, dates and category filter, a supplied category_id
\* with a non-empty bucket set included, the call returns its list of
\* records and raises nothing.
C3_NeverRaises == (op = "get" /\ Frame.period # "none") => pc # "raised"

\* C4 (as stated): with no start_date an annual request resolves the start
\* to end_date minus five years for every end_date, raises nothing while
\* doing so, and goes on to the buckets of the years end.year-5 .. end.year.
C4_AnnualDefaultStart ==
    (op = "get" /\ args.period = "annual" /\ args.start_date = None)
        => /\ error # "ValueError"
           /\ Frame.start_date < Frame.end_date
           /\ Year(Frame.start_date) = Year(Frame.end_date) - 5
           /\ Folded => (/\ Len(Frame.data) = 6
                         /\ \A n \in 1..6 :
                                Frame.data[n].key = Year(Frame.end_date) - 6 + n)

\* C5 (as stated): under a category filter the supplied sales form a set:
\* no stored sale is supplied twice, so each matching sale adds one to the
\* transaction count however many of its lines are in the category.
C5_FilteredSalesFormASet ==
    (op = "get" /\ pc \in {"group", "done", "raised"} /\ Frame.category_id # None)
        => /\ \A i, j \in DOMAIN Frame.sales :
                  i # j => Frame.sales[i].id # Frame.sales[j].id
           /\ (pc # "group" /\ error # "ValueError")
                  => SumOrderCount(Frame.data)
                         = Cardinality({Frame.sales[i].id : i \in DOMAIN Frame.sales})

\* C6: for start_date <= end_date every supplied sale dated within
\* [start_date, end_date] is folded into exactly one bucket, the one whose
\* span contains its date: exactly one bucket spans the date, and each
\* bucket counts exactly the supplied sales dated within its span.
C6_EachSaleInItsOneBucket ==
    (Folded /\ Frame.start_date <= Frame.end_date)
        => /\ \A i \in DOMAIN Frame.sales :
                  (Frame.start_date <= SaleDay(Frame.sales[i])
                        /\ SaleDay(Frame.sales[i]) <= Frame.end_date)
                      => Cardinality({b \in DOMAIN Frame.data :
                                         i \in SalesIn(Frame.sales, Frame.data[b])}) = 1
           /\ \A b \in DOMAIN Frame.data :
                  Frame.data[b].order_count
                      = Cardinality(SalesIn(Frame.sales, Frame.data[b]))

C6_Witness ==
    /\ Folded
    /\ Frame.period = "weekly"
    /\ Frame.start_date <= Frame.end_date
    /\ Len(Frame.sales) >= 2
    /\ \E b \in DOMAIN Frame.data :
           /\ Frame.data[b].order_count >= 1
           /\ Frame.data[b].order_count < Len(Frame.sales)

C8_PeriodAverageIsPerTransaction ==
    (op = "compare" /\ pc = "done")
        => \A n \in {1, 2} :
               LET period == IF n = 1 THEN response.period1 ELSE response.period2
                   orders == SumOrderCount(frames[n].data)
               IN  IF orders > 0
                   THEN RatEq(period.average_order_value, period.total_revenue, orders)
                   ELSE RatIsZero(period.average_order_value)

\* C9: every day from start_date to end_date lies in the span of a returned
\* record, sale or no sale, and a record whose bucket received no sale has
\* total_revenue = 0, total_sales = 0 and average_order_value = 0.
C9_EmptyPeriodsAppearAsZero ==
    Returned
        => /\ \A d \in Frame.start_date..Frame.end_date :
                  \E i \in DOMAIN response :
                      response[i].period_start <= d /\ d <= response[i].period_end
           /\ \A i \in DOMAIN response :
                  SalesIn(Frame.sales, Frame.data[i]) = {}
                      => /\ response[i].total_revenue = 0
                         /\ response[i].total_sales = 0
                         /\ RatIsZero(response[i].average_order_value)
           /\ \A i \in DOMAIN response :
                  Frame.data[i].order_count = 0
                      => /\ response[i].total_revenue = 0
                         /\ response[i].total_sales = 0
                         /\ RatIsZero(response[i].average_order_value)

C9_Witness ==
    /\ Returned
    /\ Frame.period = "daily"
    /\ \E i, j \in DOMAIN response :
           /\ Frame.data[i].order_count = 0
           /\ response[i].total_revenue = 0
           /\ Frame.data[j].order_count > 0
           /\ response[j].total_revenue > 0

\* C10: the average_order_value of every record is the bucket's
\* total_revenue divided by the number of sales folded into the bucket when
\* that number is positive and 0 otherwise, and no request divides by zero.
C10_AverageOrderValue ==
    /\ error # "ZeroDivisionError"
    /\ Returned
           => \A i \in DOMAIN response :
                  LET folded == Cardinality(SalesIn(Frame.sales, Frame.data[i]))
                  IN  IF folded > 0
                      THEN RatEq(response[i].average_order_value,
                                 response[i].total_revenue, folded)
                      ELSE response[i].average_order_value = Zero

C10_Witness ==
    /\ Returned
    /\ \E i, j \in DOMAIN response :
           /\ Cardinality(SalesIn(Frame.sales, Frame.data[i])) = 2
           /\ response[i].average_order_value.den = 2
           /\ response[i].average_order_value.num > 0
           /\ Cardinality(SalesIn(Frame.sales, Frame.data[j])) = 0

\* C11: in a comparison that returned, revenue_change_percentage is zero when
\* period 1's total revenue is zero and otherwise revenue_change /
\* total_revenue(period1) * 100; sales_change_percentage is zero when period
\* 1's total unit count is zero and otherwise sales_change /
\* total_sales(period1) * 100; and no comparison raises a division by zero.
C11_ChangePercentages ==
    /\ op = "compare" => error # "ZeroDivisionError"
    /\ (op = "compare" /\ pc = "done") =>
          LET p1 == response.period1
          IN  /\ response.revenue_change_percentage.ok
              /\ response.sales_change_percentage.ok
              /\ IF p1.total_revenue = 0
                 THEN RatIsZero(response.revenue_change_percentage)
                 ELSE RatEq(response.revenue_change_percentage,
                            response.revenue_change * 100, p1.total_revenue)
              /\ IF p1.total_sales = 0
                 THEN RatIsZero(response.sales_change_percentage)
                 ELSE RatEq(response.sales_change_percentage,
                            response.sales_change * 100, p1.total_sales)

\* a comparison returned whose first period sold nothing and whose second did
C11_Witness ==
    /\ op = "compare" /\ pc = "done"
    /\ response.period1.total_revenue = 0
    /\ response.period1.total_sales = 0
    /\ response.period2.total_revenue > 0
    /\ RatIsZero(response.revenue_change_percentage)

\* the sum of one numeric field over a list of returned records
RECURSIVE TotalRevenueOf(_)
TotalRevenueOf(records) ==
    IF records = <<>> THEN 0
    ELSE records[Len(records)].total_revenue
         + TotalRevenueOf(SubSeq(records, 1, Len(records) - 1))

RECURSIVE TotalSalesOf(_)
TotalSalesOf(records) ==
    IF records = <<>> THEN 0
    ELSE records[Len(records)].total_sales
         + TotalSalesOf(SubSeq(records, 1, Len(records) - 1))

\* C12: in a comparison that returned, each period's total_revenue and
\* total_sales are the sums over that period's records, revenue_change is
\* total_revenue(period2) - total_revenue(period1) and sales_change is
\* total_sales(period2) - total_sales(period1).
C12_ChangesAreDifferences ==
    (op = "compare" /\ pc = "done") =>
        /\ response.period1.data = frames[1].result
        /\ response.period2.data = frames[2].result
        /\ response.period1.total_revenue = TotalRevenueOf(frames[1].result)
        /\ response.period2.total_revenue = TotalRevenueOf(frames[2].result)
        /\ response.period1.total_sales = TotalSalesOf(frames[1].result)
        /\ response.period2.total_sales = TotalSalesOf(frames[2].result)
        /\ response.revenue_change =
              TotalRevenueOf(frames[2].result) - TotalRevenueOf(frames[1].result)
        /\ response.sales_change =
              TotalSalesOf(frames[2].result) - TotalSalesOf(frames[1].result)

\* a comparison returned between two periods that both sold, with a change
C12_Witness ==
    /\ op = "compare" /\ pc = "done"
    /\ response.period1.total_revenue > 0
    /\ response.period2.total_revenue > response.period1.total_revenue
    /\ response.revenue_change > 0
    /\ response.sales_change > 0

\* C13: for the weekly granularity and start_date <= end_date, the first
\* bucket starts on the Monday on or before start_date, each later bucket
\* starts seven days after the one before it, the buckets are exactly those
\* of the Mondays from there up to end_date, and every bucket ends six days
\* after it starts, the last one included when that is after end_date.
C13_WeeklyBuckets ==
    (Returned /\ Frame.period = "weekly" /\ Frame.start_date <= Frame.end_date) =>
        LET n == Len(response)
        IN  /\ n >= 1
            /\ Weekday(response[1].period_start) = 0
            /\ response[1].period_start <= Frame.start_date
            /\ Frame.start_date - response[1].period_start <= 6
            /\ \A i \in 2..n :
                   response[i].period_start = response[i - 1].period_start + 7
            /\ {response[i].period_start : i \in 1..n} =
                   {d \in (Frame.start_date - 6)..Frame.end_date : Weekday(d) = 0}
            /\ \A i \in 1..n : response[i].period_end = response[i].period_start + 6

\* a weekly request returned whose start_date is no Monday and whose
\* end_date is one: the last week starts on end_date and runs past it
C13_Witness ==
    /\ Returned /\ Frame.period = "weekly"
    /\ Weekday(Frame.start_date) # 0
    /\ Weekday(Frame.end_date) = 0
    /\ Frame.start_date < Frame.end_date
    /\ Len(response) >= 2
    /\ response[Len(response)].period_start = Frame.end_date
    /\ response[Len(response)].period_end = Frame.end_date + 6

\* C14: for the monthly granularity and start_date <= end_date there is one
\* bucket per calendar month from start_date's month to end_date's month
\* (12 * (end.year - start.year) + end.month - start.month + 1 of them), each
\* from the 1st to the true last day of its month, over the December to
\* January rollover and the leap February.
C14_MonthlyBuckets ==
    (Returned /\ Frame.period = "monthly" /\ Frame.start_date <= Frame.end_date) =>
        LET n == Len(response)
            s == Frame.start_date
            e == Frame.end_date
        IN  /\ n = 12 * (Year(e) - Year(s)) + Month(e) - Month(s) + 1
            /\ \A i \in 1..n :
                   LET months == (Year(s) * 12 + Month(s) - 1) + (i - 1)
                       y == months \div 12
                       m == (months % 12) + 1
                       r == response[i]
                   IN  /\ Year(r.period_start) = y /\ Month(r.period_start) = m
                       /\ Day(r.period_start) = 1
                       /\ Year(r.period_end) = y /\ Month(r.period_end) = m
                       /\ Day(r.period_end + 1) = 1

\* a monthly request returned that runs from December 2023 over the leap
\* February into March 2024
C14_Witness ==
    /\ Returned /\ Frame.period = "monthly"
    /\ Year(Frame.start_date) < Year(Frame.end_date)
    /\ Len(response) = 4
    /\ response[1].period_end = MkDate(2023, 12, 31)
    /\ response[2].period_start = MkDate(2024, 1, 1)
    /\ response[3].period_end = MkDate(2024, 2, 29)

\* what the supplied sales of one date amount to
RECURSIVE AmountOn(_, _)
AmountOn(sales, d) ==
    IF sales = <<>> THEN 0
    ELSE (IF SaleDay(Head(sales)) = d THEN Head(sales).total_amount ELSE 0)
         + AmountOn(Tail(sales), d)

RECURSIVE QuantityOn(_, _)
QuantityOn(sales, d) ==
    IF sales = <<>> THEN 0
    ELSE (IF SaleDay(Head(sales)) = d THEN SumQuantity(Head(sales).items) ELSE 0)
         + QuantityOn(Tail(sales), d)

\* C15: for the daily granularity and start_date <= end_date there is one
\* record per date of the range (end_date - start_date + 1 of them), the
\* i-th with period_start = period_end = start_date + i - 1, and a sale
\* counts in the record of its own date and in no other.
C15_DailyBuckets ==
    (Returned /\ Frame.period = "daily" /\ Frame.start_date <= Frame.end_date) =>
        /\ Len(response) = Frame.end_date - Frame.start_date + 1
        /\ \A i \in DOMAIN response :
               LET d == Frame.start_date + i - 1
               IN  /\ response[i].period_start = d
                   /\ response[i].period_end = d
                   /\ response[i].total_revenue = AmountOn(Frame.sales, d)
                   /\ response[i].total_sales = QuantityOn(Frame.sales, d)

\* a daily request returned with sales on two of its dates and none on a third
C15_Witness ==
    /\ Returned /\ Frame.period = "daily"
    /\ \E i, j, k \in DOMAIN response :
           /\ i # j
           /\ response[i].total_revenue > 0
           /\ response[j].total_revenue > 0
           /\ response[k].total_revenue = 0
    /\ response[Len(response)].period_start = Frame.end_date

\* C16: for every granularity the returned records are in strictly increasing
\* period_start order, whatever the order and the dates of the supplied
\* sales.
C16_RecordsInDateOrder ==
    Returned =>
        \A i, j \in DOMAIN response :
            i < j => response[i].period_start < response[j].period_start

\* records returned for sales that were supplied later date first, each
\* counted in a bucket of its own
C16_Witness ==
    /\ Returned
    /\ Len(response) >= 2
    /\ Len(Frame.sales) >= 2
    /\ SaleDay(Frame.sales[1]) > SaleDay(Frame.sales[2])
    /\ \E i, j \in DOMAIN response :
           /\ i < j
           /\ response[i].total_revenue > 0
           /\ response[j].total_revenue > 0

\* the orders a collection of sales can be supplied in
Orderings(sales) ==
    {[i \in DOMAIN sales |-> sales[p[i]]] : p \in Permutations(DOMAIN sales)}

\* the buckets the grouping function of a call builds for the sales supplied
BucketsOf(f, sales) ==
    IF f.period = "daily" THEN GroupRevenueByDay(sales, f.start_date, f.end_date)
    ELSE IF f.period = "weekly" THEN GroupRevenueByWeek(sales, f.start_date, f.end_date)
    ELSE IF f.period = "monthly" THEN GroupRevenueByMonth(sales, f.start_date, f.end_date)
    ELSE GroupRevenueByYear(sales, f.start_date, f.end_date)

\* the records the grouping function of a call returns for the sales supplied
RecordsOf(f, sales) == FormatRecords(BucketsOf(f, sales), f.category_id)

\* C17 (as stated): for every granularity and date range the returned records
\* are the same for every permutation of the supplied sales; the order in
\* which the sales are folded into the buckets changes no record.
C17_OrderIndependent ==
    Returned => \A o \in Orderings(Frame.sales) : RecordsOf(Frame, o) = response

\* the supplied sales but the k-th
Without(sales, k) == SubSeq(sales, 1, k - 1) \o SubSeq(sales, k + 1, Len(sales))

\* the supplied sales (by position) whose key is no key of the bucket set
\* generated for the range
Dropped(f) ==
    {k \in DOMAIN f.sales :
        SaleKey(f.period, f.sales[k]) \notin Keys(BucketsOf(f, <<>>))}

\* C18: a supplied sale whose assignment key is no key of the bucket set is
\* skipped without raising, and the buckets (their keys, total_revenue,
\* total_sales and transaction counts) are what they would be had it not
\* been supplied.
C18_SaleOutsideBucketsIsSkipped ==
    (op = "get" /\ pc \in {"done", "raised"} /\ Dropped(Frame) # {}) =>
        /\ pc = "done"
        /\ \A k \in Dropped(Frame) :
               Frame.data = BucketsOf(Frame, Without(Frame.sales, k))
        /\ \A i \in DOMAIN Frame.data :
               /\ Frame.data[i].order_count =
                      Cardinality({k \in DOMAIN Frame.sales :
                                      SaleKey(Frame.period, Frame.sales[k]) = Frame.data[i].key})
               /\ Frame.data[i].order_count = 0 =>
                      Frame.data[i].total_revenue = 0 /\ Frame.data[i].total_sales = 0

\* the grouping function returned for two supplied sales, one counted in a
\* bucket and one whose key no bucket has
C18_Witness ==
    /\ op = "get" /\ pc = "done"
    /\ Dropped(Frame) # {}
    /\ \E k \in DOMAIN Frame.sales : k \notin Dropped(Frame)
    /\ \E i \in DOMAIN response : response[i].total_revenue > 0

\* C19: with no start_date a monthly request resolves the start, for every
\* end_date, to a valid date in month 1 of end_date's year with end_date's
\* day of the month, raising nothing, so that the buckets are the months
\* from January to end_date's month of that year; the month number computed
\* for replace() lies in 1..12.
C19_MonthlyDefaultStart ==
    (op = "get" /\ args.period = "monthly" /\ args.start_date = None) =>
        /\ error # "ValueError"
        /\ DefaultMonth(Frame.end_date) \in 1..12
        /\ Year(Frame.start_date) = Year(Frame.end_date)
        /\ Month(Frame.start_date) = 1
        /\ Day(Frame.start_date) = Day(Frame.end_date)
        /\ Folded => (/\ Len(Frame.data) = Month(Frame.end_date)
                      /\ \A n \in DOMAIN Frame.data :
                             Frame.data[n].start_date = MkDate(Year(Frame.end_date), n, 1))

\* a monthly request without start_date returned for 31 December: the
\* start is 31 January and the twelve months of the year are there
C19_Witness ==
    /\ Returned /\ args.period = "monthly" /\ args.start_date = None
    /\ Frame.end_date = MkDate(2023, 12, 31)
    /\ Frame.start_date = MkDate(2023, 1, 31)
    /\ Len(response) = 12

\* what get_revenue_by_period returns for these dates over the store as it is
AloneRecords(period, start_date, end_date, category_id) ==
    RecordsOf([period |-> period, start_date |-> start_date, end_date |-> end_date,
               category_id |-> category_id],
              QuerySales(store, start_date, end_date, category_id))

\* what a request with these arguments returns when nothing else runs
AloneResponse(o, a) ==
    IF o = "get"
    THEN AloneRecords(a.period, a.start_date.v, a.end_date.v, a.category_id)
    ELSE RevenueCompareResponse(a,
             AloneRecords(a.period, a.period1_start, a.period1_end, a.category_id),
             AloneRecords(a.period, a.period2_start, a.period2_end, a.category_id))

\* C20: of two requests (get_revenue_by_period or compare_revenue) whose
\* steps interleave in any way over a sales store that does not change, each
\* returns what it would return when run alone, and neither raises.
C20_ConcurrentRequestsIndependent ==
    \A t \in {Running, suspended} :
        /\ t.pc # "raised"
        /\ t.pc = "done" => t.response = AloneResponse(t.op, t.args)

\* a request returned its records while a comparison with other arguments
\* was waiting for its second query, both over a store with sales
C20_Witness ==
    /\ store # <<>>
    /\ pc = "done" /\ op = "get"
    /\ \E i \in DOMAIN response : response[i].total_revenue > 0
    /\ suspended.op = "compare"
    /\ suspended.pc = "execute"
    /\ suspended.call = 2
    /\ suspended.args.period # args.period

\* the rows of a result, as a set
RowsOf(sales) == {sales[i] : i \in DOMAIN sales}

\* C21: the sales query is inclusive at both ends on whole days: when the
\* statement is executed, a stored sale is among the rows if and only if
\* the date d of its timestamp satisfies start_date <= d <= end_date (and,
\* under a category filter, one of its lines is of the category), whatever
\* its time of day.
C21_QueryInclusiveOnWholeDays ==
    [][(pc = "execute" /\ pc' = "group") =>
          LET f == frames'[call]
          IN  \A i \in DOMAIN store :
                  (store[i] \in RowsOf(f.sales)) <=>
                      /\ f.start_date <= SaleDay(store[i])
                      /\ SaleDay(store[i]) <= f.end_date
                      /\ (f.category_id.tag = "none" \/
                             \E n \in DOMAIN store[i].items :
                                 CategoryOf(store[i].items[n].product_id) = f.category_id.v)
      ]_vars

\* the query returned a sale of 00:00:00 on start_date and a sale of the
\* last microsecond of end_date
C21_Witness ==
    /\ op = "get" /\ pc = "group"
    /\ Frame.start_date < Frame.end_date
    /\ \E i, j \in DOMAIN Frame.sales :
           /\ Frame.sales[i].sale_date = Combine(Frame.start_date, TimeMin)
           /\ Frame.sales[j].sale_date = Combine(Frame.end_date, TimeMax)

\* C29 (as stated): a comparison of a date range with itself returns
\* revenue_change = 0, sales_change = 0 and both percentages 0, also when a
\* create_sale for a date of the range commits while it is in progress.
C29_SameRangeComparesEqual ==
    (/\ op = "compare" /\ pc = "done"
     /\ args.period1_start = args.period2_start
     /\ args.period1_end = args.period2_end) =>
        /\ response.revenue_change = 0
        /\ response.sales_change = 0
        /\ RatIsZero(response.revenue_change_percentage)
        /\ RatIsZero(response.sales_change_percentage)

\* C25: create_product persists the product together with its first
\* inventory record: when it has returned the product has exactly one
\* inventory record, of quantity 0, and the response reports
\* inventory_quantity = 0; and in no committed state is there a product
\* without an inventory record.
C25_ProductCreatedWithInventory ==
    /\ \A p \in catalog.products : InventoryOf(p.id) # {}
    /\ (op = "create_product" /\ pc = "done") =>
          /\ ProductById(response.id) # {}
          /\ Cardinality(InventoryOf(response.id)) = 1
          /\ \A i \in InventoryOf(response.id) : i.quantity = 0
          /\ response.inventory_quantity = 0

\* create_product returned the second product of the catalogue
C25_Witness ==
    /\ op = "create_product" /\ pc = "done"
    /\ Cardinality(catalog.products) = 2
    /\ Cardinality(catalog.inventory) = 2
    /\ response.sku = args.sku

\* what a step of an update_product request leaves alone, but for the
\* columns named: the other products, and of its own product every field
\* that is not in the patch; nothing at all when the patch is empty or the
\* product unknown, which returns None
UpdateKeeps(columns) ==
    op = "update_product" =>
        /\ \A p \in catalog.products :
               IF p.id # args.product_id THEN p \in catalog'.products
               ELSE \E q \in catalog'.products :
                        /\ q.id = p.id
                        /\ \A f \in DOMAIN p :
                               \/ q[f] = p[f]
                               \/ f \in DOMAIN args.product_data /\ q[f] = args.product_data[f]
                               \/ f \in columns
        /\ Cardinality(catalog'.products) = Cardinality(catalog.products)
        /\ catalog'.inventory = catalog.inventory
        /\ (DOMAIN args.product_data = {} \/ ProductById(args.product_id) = {}) =>
               catalog' = catalog
        /\ (pc = "select" /\ ProductById(args.product_id) = {}) =>
               (pc' = "raised" /\ response' = Null)
        /\ (pc = "select" /\ ProductById(args.product_id) # {}
               /\ DOMAIN args.product_data = {}) =>
               (pc' = "done" /\ response' = ProductResponse(
                                     CHOOSE p \in ProductById(args.product_id) : TRUE))

\* C26 (as stated): update_product changes only the fields present in the
\* patch and leaves every other field of the product, and every other
\* product, unchanged; an empty patch writes nothing and returns the
\* product; an unknown product_id returns None and changes nothing.
C26_UpdateChangesOnlyPatch == [][UpdateKeeps({})]_vars

\* C26 (amended): update_product changes only the fields present in the
\* patch and the product's updated_at, and leaves every other field of the
\* product, and every other product, unchanged; an empty patch writes
\* nothing and returns the product; an unknown product_id returns None and
\* changes nothing.
C26_UpdateChangesPatchAndStamp == [][UpdateKeeps({"updated_at"})]_vars

\* update_product returned after a patch of the name alone, on a product
\* that has a description, with another product in the catalogue
C26_Witness ==
    /\ op = "update_product" /\ pc = "done"
    /\ DOMAIN args.product_data = {"name"}
    /\ response.name = "cap"
    /\ response.description = "blue"
    /\ response.updated_at > response.created_at
    /\ Cardinality(catalog.products) = 2

\* C27 (as stated): after any sequence of create_product and delete_product
\* calls every inventory record references an existing product, and a
\* create_product whose product row was inserted goes on to create its
\* inventory record; delete_product of an unknown id returns False and
\* changes nothing.
C27_InventoryReferencesProduct ==
    /\ \A i \in catalog.inventory : ProductById(i.product_id) # {}
    /\ (op = "create_product" /\ pc = "raised") => "product" \notin DOMAIN frames[1]
    /\ (op = "delete_product" /\ pc = "raised") => response = FALSE

\* the ids of the items of a list response
IdsOf(items) == {items[k].id : k \in DOMAIN items}

\* C22 (as stated): get_low_stock_inventory(threshold) returns exactly the
\* inventory items whose quantity is below the threshold, restricted to the
\* category when one is given, each once, in non-decreasing order of
\* quantity.
C22_LowStockBelowThreshold ==
    (op = "get_low_stock_inventory" /\ pc = "done") =>
        /\ IdsOf(response) =
               {i.id : i \in {j \in catalog.inventory :
                   /\ j.quantity < args.threshold
                   /\ args.category_id # 0 =>
                          \E p \in ProductById(j.product_id) :
                              p.category_id = args.category_id}}
        /\ Cardinality(IdsOf(response)) = Len(response)
        /\ \A j, k \in DOMAIN response :
               j < k => response[j].quantity <= response[k].quantity

\* what the commit of a running update_inventory does to the catalogue
UpdateInventoryEffect ==
    /\ JoinedInventoryOf(args.product_id) # {}
    /\ LET before == CHOOSE i \in JoinedInventoryOf(args.product_id) : TRUE
       IN  /\ \E h \in catalog'.inventory_history :
                  /\ h \notin catalog.inventory_history
                  /\ catalog'.inventory_history = catalog.inventory_history \cup {h}
                  /\ h.inventory_id = before.id
                  /\ h.previous_quantity = before.quantity
                  /\ h.new_quantity = args.quantity
                  /\ h.quantity_change = args.quantity - before.quantity
           /\ \A i \in catalog.inventory :
                  IF i.id = before.id
                  THEN \E j \in catalog'.inventory :
                           /\ j.id = i.id
                           /\ j.product_id = i.product_id
                           /\ j.quantity = args.quantity
                  ELSE i \in catalog'.inventory
           /\ Cardinality(catalog'.inventory) = Cardinality(catalog.inventory)
    /\ catalog'.products = catalog.products
    /\ response.quantity = args.quantity
    /\ pc' = "done"

\* C23: a successful update_inventory(product_id, quantity=q) sets the
\* product's inventory quantity to q and adds exactly one InventoryHistory
\* entry for that inventory, with previous_quantity the quantity stored
\* before the call, new_quantity = q and quantity_change = q -
\* previous_quantity; no other inventory record is changed.  (The request
\* writes at its commit and nowhere else, so the quantity stored before the
\* commit is the one stored before the call.)
C23_UpdateSetsQuantityAndLogs ==
    [][op = "update_inventory" =>
           IF pc = "commit" THEN UpdateInventoryEffect ELSE catalog' = catalog]_vars

\* update_inventory returned after raising the quantity of one of two
\* inventory records from 0 to 2
C23_Witness ==
    /\ op = "update_inventory" /\ pc = "done"
    /\ Cardinality(catalog.inventory) = 2
    /\ \E h \in catalog.inventory_history :
           h.previous_quantity = 0 /\ h.new_quantity = 2 /\ h.quantity_change = 2
    /\ \E i \in catalog.inventory : i.product_id = args.product_id /\ i.quantity = 2
    /\ \E i \in catalog.inventory : i.product_id # args.product_id /\ i.quantity = 0

\* C24: update_inventory for a product_id that has no inventory record
\* returns None, which the router reports as 404, and leaves the store
\* unchanged: no inventory quantity changes and no InventoryHistory entry is
\* added.
C24_UnknownInventoryNotFound ==
    [][(op = "update_inventory" /\ InventoryOf(args.product_id) = {}) =>
           /\ catalog' = catalog
           /\ pc = "select" =>
                  /\ pc' = "raised"
                  /\ error' = "HTTP_404_NOT_FOUND"
                  /\ response' = Null]_vars

\* update_inventory of a product_id without inventory record got its 404,
\* in a catalogue that has an inventory record and a history entry
C24_Witness ==
    /\ op = "update_inventory" /\ pc = "raised"
    /\ error = "HTTP_404_NOT_FOUND"
    /\ InventoryOf(args.product_id) = {}
    /\ catalog.inventory # {}
    /\ catalog.inventory_history # {}

\* the InventoryHistory entries of an inventory record
HistoryOf(inventory) ==
    {h \in catalog.inventory_history : h.inventory_id = inventory.id}

\* C28 (as stated): for each inventory record, after any interleaving of
\* update_inventory requests, two requests on the same product that overlap
\* in time included, the InventoryHistory entries in creation order form a
\* chain: each entry's previous_quantity equals the preceding entry's
\* new_quantity, and the last entry's new_quantity equals the stored
\* inventory quantity.
C28_HistoryIsChain ==
    \A i \in catalog.inventory : \A h \in HistoryOf(i) :
        /\ \A g \in HistoryOf(i) :
               (g.id < h.id /\ ~\E m \in HistoryOf(i) : g.id < m.id /\ m.id < h.id)
                   => h.previous_quantity = g.new_quantity
        /\ (\A g \in HistoryOf(i) : g.id <= h.id) => h.new_quantity = i.quantity

====
